---- MODULE Spec2Model ----
(***************************************************************************)
(* Temperature-search engine of focal_calibration                          *)
(* (src/temperature_scaling.py).                                           *)
(*                                                                         *)
(* Units.  A temperature is an integer number of twentieths (0.05), so     *)
(* that the grid step 0.1 is Tenth = 2, the default 1.0 is One = 20 and    *)
(* the mean of two grid values is again an integer.  The floating-point    *)
(* drift of the repeated "T += 0.1" is not modelled.  A calibration error  *)
(* is an integer number of half-eps units (Eps = 2), so that differences   *)
(* below, equal to and above eps all occur.                                *)
(*                                                                         *)
(* Each solver phase has its own state record and its own specification:   *)
(*   grid   SpecGrid    the global scalar search of set_temperature2 and   *)
(*                      set_temperature3, and their const_temp return      *)
(*   step   SpecStep    the step-based per-class and per-bin searches of   *)
(*                      ModelWithTemperature.set_temperature and           *)
(*                      ModelWithTemperature.set_bins_temperature          *)
(*   outer  SpecOuter   the outer iterations of the per-bin solvers        *)
(*                      ModelWithTemperature.set_bins_temperature2 and     *)
(*                      set_temperature3: trace, best iteration, stopping  *)
(*   smooth SpecSmooth  the sparse-bin smoothing of one outer iteration    *)
(*   part   SpecPart    the equal-population bin boundaries and the bin    *)
(*                      membership of the samples in the outer iterations  *)
(*   cls    SpecClass   the grid-based per-class search of                 *)
(*                      set_temperature2                                   *)
(*   cfg    SpecConfig  a call of set_temperature2 or set_temperature3     *)
(*                      and the evaluator calls it makes                   *)
(*   bins   SpecBins    the bin loop of one outer iteration of the         *)
(*                      per-bin solvers: search, smoothing, application    *)
(*                      and the replay of bins_temperature_scale_test3     *)
(*   perm   SpecPerm    one pass of the per-class searches, run for every  *)
(*                      order of the classes                               *)
(*   fwd    SpecFwd     a const_temp ModelWithTemperature: set_temperature *)
(*                      and forward()                                      *)
(*   bsearch SpecBs     the ECE grid search of one bin in set_temperature3 *)
(*   eqb    SpecEq      equal_bins                                         *)
(***************************************************************************)
EXTENDS Integers, Sequences, FiniteSets, TLC

VARIABLES grid, step, outer, smooth, part, cls, cfg, bins, perm, fwd, bsearch, eqb

vars == <<grid, step, outer, smooth, part, cls, cfg, bins, perm, fwd, bsearch, eqb>>

\* the state of a phase that a specification does not run
Idle == [pc |-> "idle"]

(***************************************************************************)
(* Program constants.                                                      *)
(***************************************************************************)
\* one grid step, 0.1 ("T += 0.1")
Tenth == 2
\* the default optimum 1.0 ("T_opt_ece = 1.0")
One == 20
\* the number of candidates of one sweep ("for i in range(100)")
GridSteps == 100
\* the initial best error ("ece_val = 10 ** 7")
Sentinel == 10000000
\* the improvement threshold eps ("eps = 1e-6"), in half-eps error units
Eps == 2
\* the half-width 0.2 of the step window ("steps_limit = 0.2")
StepsLimit == 4
\* the sample count below which a bin is sparse
\* ("confidences[in_bin].shape[0] < 20")
SparseLimit == 20

(***************************************************************************)
(* Bounds of the model.                                                    *)
(***************************************************************************)
\* calibration errors are drawn from 0..MaxErr
MaxErr == 2
\* iteration caps are drawn from 1..MaxIters
MaxIters == 2
\* the number of classes (or confidence bins) of the step-based searches
NumScopes == 2
\* the iteration caps of the per-bin solvers are drawn from 1..MaxCap
MaxCap == 3
\* bin counts are drawn from 1..MaxBins
MaxBins == 4
\* the number of samples of a binned confidence vector
NumSamples == 3
\* confidences are drawn from the levels 1..MaxConf
MaxConf == 3
\* the passes of a pass loop that the model follows
MaxPasses == 4
\* the confidence vectors given to equal_bins have 1 to MaxLen entries
MaxLen == 5

NoValue == "None"

(***************************************************************************)
(* The calibration-error evaluators (Metrics.metrics.ECELoss and           *)
(* nn.CrossEntropyLoss) are external pure functions of the scaled logits.  *)
(* For fixed logits and labels the error is a function of the candidate    *)
(* temperature alone; an input fixes it by a shape: the error is b at      *)
(* every candidate except the p-th and the q-th grid positions, where it   *)
(* is vp and vq.                                                           *)
(***************************************************************************)
Positions == {1, 2, GridSteps, GridSteps + 1}

ErrShapes ==
  [p : Positions, q : Positions, vp : 0..MaxErr, vq : 0..MaxErr, b : 0..MaxErr]

EceShapes == {s \in ErrShapes : s.p < s.q}

NllShapes == {s \in ErrShapes : s.p = 2 /\ s.q \in {GridSteps, GridSteps + 1}
                                 /\ s.vp = MaxErr /\ s.b = MaxErr}

DummyShape == [p |-> 1, q |-> 2, vp |-> 0, vq |-> 0, b |-> 0]

\* error of the logits divided by temperature T under the input's shape
criterion(shape, T) ==
  IF T = shape.p * Tenth THEN shape.vp
  ELSE IF T = shape.q * Tenth THEN shape.vq
  ELSE shape.b

(***************************************************************************)
(* Global scalar search.                                                   *)
(***************************************************************************)
\* "if ece_val > after_temperature_ece": a candidate replaces the optimum
\* only when strictly better (mutant: not worse)
ImprovesOrTies(best, after) == best >= after

Improves(best, after) == best > after

\* set_temperature2 (const and warm-start sweeps) and the const sweep of
\* set_temperature3 evaluate NLL only where the code calls nll_criterion
NllEvaluated(g) == g.const_temp \/ g.fn = "set_temperature3"

\* only the warm start of set_temperature3 repeats the sweep iters times
Rounds(g) ==
  IF g.fn = "set_temperature3" /\ ~g.const_temp THEN g.iters ELSE 1

gridRest == <<step, outer, smooth, part, cls, cfg, bins, perm, fwd, bsearch, eqb>>

GridInit ==
  grid \in
    { [fn |-> f, const_temp |-> c, cross_validate |-> cv, iters |-> n,
       ece |-> es, nll |-> ns,
       pc |-> "sweep", i |-> 0, t |-> 0, T |-> Tenth,
       ece_val |-> Sentinel, nll_val |-> Sentinel,
       T_opt_ece |-> One, T_opt_nll |-> One,
       temperature |-> NoValue, init_temp |-> NoValue,
       ret |-> NoValue, raised |-> NoValue] :
      f \in {"set_temperature2", "set_temperature3"},
      c \in BOOLEAN, cv \in {"ece", "nll"}, n \in 1..MaxIters,
      es \in EceShapes, ns \in NllShapes \cup {DummyShape} }
  /\ (NllEvaluated(grid) <=> grid.nll # DummyShape)
  /\ (Rounds(grid) = 1 => grid.iters = 1)

\* one candidate of the sweep: evaluate, keep if better, step the grid
GridCandidate ==
  /\ grid.pc = "sweep"
  /\ grid.t < GridSteps
  /\ LET after_ece == criterion(grid.ece, grid.T)
         after_nll == criterion(grid.nll, grid.T)
         eceBetter == Improves(grid.ece_val, after_ece)
         nllBetter == NllEvaluated(grid) /\ Improves(grid.nll_val, after_nll)
     IN grid' = [grid EXCEPT
                   !.T_opt_ece = IF eceBetter THEN grid.T ELSE @,
                   !.ece_val = IF eceBetter THEN after_ece ELSE @,
                   !.T_opt_nll = IF nllBetter THEN grid.T ELSE @,
                   !.nll_val = IF nllBetter THEN after_nll ELSE @,
                   !.T = @ + Tenth,
                   !.t = @ + 1]
  /\ UNCHANGED gridRest

\* the end of one sweep: set_temperature3's warm start goes on to its next
\* round, with T, ece_val and nll_val as the previous round left them
GridNextRound ==
  /\ grid.pc = "sweep"
  /\ grid.t = GridSteps
  /\ grid.i + 1 < Rounds(grid)
  /\ grid' = [grid EXCEPT !.i = @ + 1, !.t = 0]
  /\ UNCHANGED gridRest

\* "if cross_validate == 'ece': temperature = T_opt_ece else T_opt_nll";
\* the warm start of set_temperature2 takes init_temp = T_opt_ece
GridSelect ==
  /\ grid.pc = "sweep"
  /\ grid.t = GridSteps
  /\ grid.i + 1 = Rounds(grid)
  /\ LET chosen == IF grid.cross_validate = "ece" THEN grid.T_opt_ece
                   ELSE grid.T_opt_nll
     IN IF grid.fn = "set_temperature2" /\ ~grid.const_temp
        THEN grid' = [grid EXCEPT !.pc = "scope_search", !.i = @ + 1,
                                  !.init_temp = grid.T_opt_ece]
        ELSE grid' = [grid EXCEPT
                        !.pc = IF grid.const_temp THEN "selected"
                               ELSE "scope_search",
                        !.i = @ + 1,
                        !.temperature = chosen,
                        !.init_temp = IF grid.const_temp THEN @ ELSE chosen]
  /\ UNCHANGED gridRest

\* the end of a const_temp call.  set_temperature2 reaches
\* "csece_temperature = T_opt_csece" with T_opt_csece never assigned;
\* set_temperature3 has its return statements inside the else branch and
\* falls off the end of the function
GridConstReturn ==
  /\ grid.pc = "selected"
  /\ IF grid.fn = "set_temperature2"
     THEN grid' = [grid EXCEPT !.pc = "done", !.raised = "UnboundLocalError"]
     ELSE grid' = [grid EXCEPT !.pc = "done", !.ret = NoValue]
  /\ UNCHANGED gridRest

GridNext == GridCandidate \/ GridNextRound \/ GridSelect \/ GridConstReturn

InitGrid == GridInit /\ step = Idle /\ outer = Idle /\ smooth = Idle /\ part = Idle
  /\ cls = Idle /\ cfg = Idle /\ bins = Idle
  /\ perm = Idle
  /\ fwd = Idle
  /\ bsearch = Idle
  /\ eqb = Idle

SpecGrid == InitGrid /\ [][GridNext]_vars

(***************************************************************************)
(* Claims on the global scalar search.                                     *)
(***************************************************************************)
GridValues == {k * Tenth : k \in 1..GridSteps}

\* the position of the first candidate, in ascending order, whose error no
\* candidate of the grid undercuts
FirstArgMin(shape) ==
  CHOOSE k \in 1..GridSteps :
    /\ \A j \in 1..GridSteps :
         criterion(shape, k * Tenth) <= criterion(shape, j * Tenth)
    /\ \A j \in 1..(k - 1) :
         criterion(shape, j * Tenth) > criterion(shape, k * Tenth)

\* C1: when a single sweep of the 100 candidates has finished, the optimum
\* it holds (and hands on as init_temp or temperature) is the candidate of
\* lowest error, and among several of lowest error the smallest one.
C1_SweepKeepsFirstMinimum ==
  (Rounds(grid) = 1 /\ grid.t = GridSteps) =>
     /\ grid.T_opt_ece = FirstArgMin(grid.ece) * Tenth
     /\ NllEvaluated(grid) => grid.T_opt_nll = FirstArgMin(grid.nll) * Tenth
     /\ (grid.pc = "scope_search" /\ grid.fn = "set_temperature2") =>
          grid.init_temp = FirstArgMin(grid.ece) * Tenth

\* a finished warm-start sweep of set_temperature2 whose lowest error is
\* attained by two candidates, the smaller of which was kept
C1_Witness ==
  /\ grid.fn = "set_temperature2" /\ ~grid.const_temp
  /\ grid.pc = "scope_search"
  /\ grid.ece.vp = grid.ece.vq /\ grid.ece.vp < grid.ece.b
  /\ grid.ece.q <= GridSteps
  /\ grid.init_temp = grid.ece.p * Tenth

\* C3: a const_temp call of set_temperature2 or set_temperature3 ends
\* without an error and returns the temperature the sweep selected.
C3_ConstReturnsSelected ==
  (grid.const_temp /\ grid.pc = "done") =>
     /\ grid.raised = NoValue
     /\ grid.ret # NoValue
     /\ grid.ret = (IF grid.cross_validate = "ece" THEN grid.T_opt_ece
                    ELSE grid.T_opt_nll)

\* C4: in the warm start of set_temperature3 every candidate evaluated, in
\* every round, is a grid value, and so is the temperature handed on.
C4_WarmStartOnGrid ==
  (grid.fn = "set_temperature3" /\ ~grid.const_temp) =>
     /\ (grid.pc = "sweep" /\ grid.t < GridSteps) => grid.T \in GridValues
     /\ grid.pc = "scope_search" => grid.temperature \in GridValues

(***************************************************************************)
(* Step-based scope search: the per-class search of                        *)
(* ModelWithTemperature.set_temperature and the per-bin search of          *)
(* ModelWithTemperature.set_bins_temperature.  Both start every scope      *)
(* (class column, or the samples of one equal-width confidence bin) at     *)
(* the warm-start temperature and repeat passes over the scopes; in a pass *)
(* each scope tries its current value plus each step of temp_steps.  The   *)
(* field names are those of set_temperature; set_bins_temperature calls    *)
(* them T_bece, T_opt_bece and bece_val.                                   *)
(***************************************************************************)
Scopes == 0..(NumScopes - 1)

\* "torch.linspace(-steps_limit, steps_limit, int((2 * steps_limit) / 0.1 + 1))"
temp_steps ==
  [k \in 1..((2 * StepsLimit) \div Tenth + 1) |-> (k - 1) * Tenth - StepsLimit]

Abs(x) == IF x < 0 THEN 0 - x ELSE x

RECURSIVE SumDist(_, _, _)
SumDist(vec, target, n) ==
  IF n = 0 THEN 0
  ELSE Abs(vec[n - 1] - target[n - 1]) \div Tenth + SumDist(vec, target, n - 1)

TargetPositions == {1, 2, 3, 5}

\* the inputs of a run: the error of the logits as a function of the
\* temperature vector (flat, or w times the distance to a target vector),
\* the change d of the accuracy, and the bins that hold samples
StepInputs ==
  [kind : {"flat", "vee"}, w : {1, 3},
   target : [Scopes -> {k * Tenth : k \in TargetPositions}],
   d : {0 - 1, 0, 1},
   present : [Scopes -> BOOLEAN]]

\* ece_criterion of the logits scaled by the temperature vector vec
StepErr(inp, vec) ==
  IF inp.kind = "flat" THEN 1 ELSE inp.w * SumDist(vec, inp.target, NumScopes)

\* the accuracy of the logits scaled by vec.  Dividing every column (or
\* every row) by one positive value keeps each argmax, so the accuracy
\* moves only when the columns are scaled unequally (per-class) or a row is
\* divided by a non-positive value (per-bin)
StepAcc(solver, inp, vec) ==
  IF solver = "set_temperature"
  THEN 1 + (IF vec[0] < vec[1] THEN inp.d ELSE 0)
  ELSE 1 + (IF \E c \in Scopes : vec[c] <= 0 THEN inp.d ELSE 0)

Uniform(v) == [c \in Scopes |-> v]

\* the warm start: the sweep of the 100 candidates with every scope at the
\* candidate keeps the first candidate of lowest error (the sweep itself is
\* GridCandidate; its result is stated here in closed form)
StepSweep(inp) ==
  Tenth * (CHOOSE k \in 1..GridSteps :
             /\ \A j \in 1..GridSteps :
                  StepErr(inp, Uniform(k * Tenth)) <= StepErr(inp, Uniform(j * Tenth))
             /\ \A j \in 1..(k - 1) :
                  Improves(StepErr(inp, Uniform(j * Tenth)),
                           StepErr(inp, Uniform(k * Tenth))))

\* the error functions of the inputs
ErrFunctions ==
  [kind : {"flat", "vee"}, w : {1, 3},
   target : [Scopes -> {k * Tenth : k \in TargetPositions}]]

\* the inputs whose error function is e
WithErr(inputs, e) ==
  { inp \in inputs :
      inp.kind = e.kind /\ inp.w = e.w /\ inp.target = e.target }

\* "bece_val > after_temperature_ece + eps"; set_temperature compares
\* without eps
StepEps(solver) == IF solver = "set_bins_temperature" THEN Eps ELSE 0

StepInit ==
  \E e \in ErrFunctions :
    \E warm \in {StepSweep(e)} :
       \E sv \in {"set_temperature", "set_bins_temperature"}, ac \in BOOLEAN,
          inp \in WithErr(StepInputs, e), it \in 1..MaxIters :
         /\ inp.kind = "flat" => inp.w = 1 /\ inp.target = Uniform(Tenth)
         /\ sv = "set_temperature" => \A c \in Scopes : inp.present[c]
         /\ \E c \in Scopes : inp.present[c]
         /\ step =
              [solver |-> sv, acc_check |-> ac, inp |-> inp,
               iters |-> IF sv = "set_bins_temperature" THEN 0 ELSE it,
               history |-> <<Uniform(warm)>>,
               pc |-> "scope",
               init_temp |-> warm,
               T |-> (GridSteps + 1) * Tenth,
               T_csece |-> Uniform(warm),
               T_opt_csece |-> Uniform(warm),
               prev_temperatures |-> Uniform(warm),
               ece_list |-> <<StepErr(inp, Uniform(warm))>>,
               accuracy |-> StepAcc(sv, inp, Uniform(One)),
               csece_val |-> Sentinel,
               label |-> 0, s |-> 1, init_temp_value |-> 0,
               converged |-> FALSE]

stepRest == <<grid, outer, smooth, part, cls, cfg, bins, perm, fwd, bsearch, eqb>>

\* self.iters at the entry of a scope: set_bins_temperature counts its
\* passes in it ("self.iters += 1" at the head of a pass); set_temperature
\* leaves the cap of the constructor untouched
ItersAt(st) ==
  IF st.solver = "set_bins_temperature" /\ st.label = 0
  THEN st.iters + 1 ELSE st.iters

\* "for label in range(...)": a scope that holds samples starts its steps
StepBeginScope ==
  /\ step.pc = "scope"
  /\ step.label < NumScopes
  /\ step.inp.present[step.label]
  /\ step' = [step EXCEPT !.pc = "steps", !.s = 1,
                          !.iters = ItersAt(step),
                          !.init_temp_value = step.T_csece[step.label]]
  /\ UNCHANGED stepRest

\* "if any(in_bin)" fails: a bin without samples is passed over
StepSkipEmptyBin ==
  /\ step.pc = "scope"
  /\ step.label < NumScopes
  /\ ~step.inp.present[step.label]
  /\ step' = [step EXCEPT !.label = @ + 1, !.iters = ItersAt(step)]
  /\ UNCHANGED stepRest

\* one candidate: the scope's starting value plus the step is written into
\* the working vector, the logits are divided by it and the error (and the
\* accuracy) evaluated; an accepted candidate updates the stored optimum.
\* With acc_check, set_temperature stores T, the variable the warm-start
\* sweep left behind, and not the candidate
StepCandidate ==
  /\ step.pc = "steps"
  /\ step.s <= Len(temp_steps)
  /\ LET cand == step.init_temp_value + temp_steps[step.s]
         Tc == [step.T_csece EXCEPT ![step.label] = cand]
         after == StepErr(step.inp, Tc)
         temp_accuracy == StepAcc(step.solver, step.inp, Tc)
         accept ==
           /\ Improves(step.csece_val, after + StepEps(step.solver))
           /\ step.acc_check => temp_accuracy >= step.accuracy
         stored == IF step.solver = "set_temperature" /\ step.acc_check
                   THEN step.T ELSE cand
     IN step' = [step EXCEPT
                   !.T_csece = Tc,
                   !.T_opt_csece[step.label] = IF accept THEN stored ELSE @,
                   !.csece_val = IF accept THEN after ELSE @,
                   !.accuracy = IF accept /\ step.acc_check
                                THEN temp_accuracy ELSE @,
                   !.s = @ + 1]
  /\ UNCHANGED stepRest

\* "T_csece[label] = T_opt_csece[label]"
StepEndScope ==
  /\ step.pc = "steps"
  /\ step.s > Len(temp_steps)
  /\ step' = [step EXCEPT
                !.T_csece[step.label] = step.T_opt_csece[step.label],
                !.label = @ + 1, !.pc = "scope"]
  /\ UNCHANGED stepRest

\* the vectors are compared as objects, and a clone is never the object it
\* was cloned from
ConvergedSameObject(csece_temperature, prev_temperatures) == FALSE

\* some entry, not every entry, equals that of the previous pass
ConvergedSome(csece_temperature, prev_temperatures) ==
  \E c \in Scopes : csece_temperature[c] = prev_temperatures[c]

\* "converged = torch.all(self.csece_temperature.eq(prev_temperatures))"
Converged(csece_temperature, prev_temperatures) ==
  \A c \in Scopes : csece_temperature[c] = prev_temperatures[c]

\* the end of a pass: the error of the stored optimum joins the trace and
\* the loop ends when the vector equals that of the previous pass.  history
\* records the stored optimum at the end of every pass, after the warm start
StepEndPass ==
  /\ step.pc = "scope"
  /\ step.label = NumScopes
  /\ Len(step.history) <= MaxPasses
  /\ LET same == Converged(step.T_opt_csece, step.prev_temperatures)
     IN step' = [step EXCEPT
                   !.ece_list = Append(@, StepErr(step.inp, step.T_opt_csece)),
                   !.history = Append(@, step.T_opt_csece),
                   !.converged = same,
                   !.prev_temperatures = step.T_opt_csece,
                   !.label = 0,
                   !.pc = IF same THEN "done" ELSE "scope"]
  /\ UNCHANGED stepRest

StepNext ==
  \/ StepBeginScope
  \/ StepSkipEmptyBin
  \/ StepCandidate
  \/ StepEndScope
  \/ StepEndPass

InitStep == StepInit /\ grid = Idle /\ outer = Idle /\ smooth = Idle /\ part = Idle
  /\ cls = Idle /\ cfg = Idle /\ bins = Idle
  /\ perm = Idle
  /\ fwd = Idle
  /\ bsearch = Idle
  /\ eqb = Idle

SpecStep == InitStep /\ [][StepNext]_vars

\* C2: every temperature the step-based searches divide the logits by, a
\* candidate under trial or a stored optimum, is strictly positive.
C2_TemperaturesPositive ==
  step.pc # "idle" =>
    \A c \in Scopes : step.T_csece[c] > 0 /\ step.T_opt_csece[c] > 0

\* C13: the per-class search of set_temperature leaves its pass loop only at
\* the end of a complete pass over the classes, and only when the stored
\* optimum after that pass equals, entry by entry, the stored optimum after
\* the previous pass (the warm-start vector for the first pass).
C13_LeavesAtFixedPoint ==
  [][ (step.pc # "idle" /\ step.solver = "set_temperature"
       /\ step.pc # "done" /\ step'.pc = "done") =>
        /\ step.label = NumScopes
        /\ Len(step'.history) = Len(step.history) + 1
        /\ \A c \in Scopes :
             step'.history[Len(step'.history)][c]
               = step'.history[Len(step'.history) - 1][c]
        /\ step'.T_opt_csece = step'.history[Len(step'.history)]
    ]_vars

\* set_temperature has left the loop after a pass that changed the vector
\* and a pass that did not
C13_Witness ==
  /\ step.pc = "done"
  /\ step.solver = "set_temperature"
  /\ Len(step.history) >= 3
  /\ step.history[1] # step.history[2]

\* C14: the per-class search never completes more passes over the classes
\* than the configured iteration cap iters.
C14_PassesWithinCap ==
  (step.pc # "idle" /\ step.solver = "set_temperature") =>
    Len(step.history) - 1 <= step.iters

(***************************************************************************)
(* Outer iterations of the per-bin solvers                                 *)
(* ModelWithTemperature.set_bins_temperature2 and set_temperature3.  One   *)
(* outer iteration bins the samples, searches every bin, smooths the       *)
(* sparse bins and evaluates the rescaled logits; of all that, the trace,  *)
(* the best-iteration marker and the stopping rule read only the error     *)
(* current_ece, which is the iteration's input here.  errs records the     *)
(* error of every iteration executed.                                      *)
(***************************************************************************)
OuterErrs == 0..(MaxErr + Eps + 1)

\* "if abs(self.ece_list[-1] - current_ece) > eps: ... else: break"
\* (mutants: the boundary excluded; the test inverted)
PlateauStrict(last, current_ece) == Abs(last - current_ece) < Eps

PlateauInverted(last, current_ece) == Abs(last - current_ece) > Eps

Plateau(last, current_ece) == Abs(last - current_ece) <= Eps

\* the trace after an iteration (mutant: the error is always appended)
TraceAppendAlways(ece_list, current_ece) == Append(ece_list, current_ece)

\* the error is appended also at a distance of exactly eps
TraceAppendAtEps(ece_list, current_ece) ==
  IF Abs(ece_list[Len(ece_list)] - current_ece) >= Eps
  THEN Append(ece_list, current_ece) ELSE ece_list

TraceAfter(ece_list, current_ece) ==
  IF Plateau(ece_list[Len(ece_list)], current_ece) THEN ece_list
  ELSE Append(ece_list, current_ece)

\* "if i > 0 and current_ece < ece_list[best_iter]: best_iter = i" and, in
\* set_temperature3, "if i == 0: best_iter = 0" (set_bins_temperature2
\* starts from self.best_iter = 0).  ece_list[0] is the seed, so
\* ece_list[best_iter] is the entry before that of iteration best_iter.
\* (mutant: the marker follows every iteration)
BestAfterLatest(i, best_iter, ece_list, current_ece) == i

BestAfter(i, best_iter, ece_list, current_ece) ==
  IF i > 0 /\ current_ece < ece_list[best_iter + 1] THEN i
  ELSE IF i = 0 THEN 0
  ELSE best_iter

OuterInit ==
  outer \in
    { [solver |-> sv, cap |-> n, seed |-> e,
       pc |-> "iter", i |-> 0, iters |-> n,
       ece_list |-> <<e>>,
       best_iter |-> IF sv = "set_temperature3" THEN NoValue ELSE 0,
       errs |-> <<>>] :
      sv \in {"set_bins_temperature2", "set_temperature3"},
      n \in 1..MaxCap, e \in OuterErrs }

outerRest == <<grid, step, smooth, part, cls, cfg, bins, perm, fwd, bsearch, eqb>>

\* an outer iteration whose error is more than eps away from the last trace
\* entry: the error joins the trace, the logits are rescaled and the loop
\* goes on, or ends when range(iters) is exhausted
OuterIterate(current_ece) ==
  /\ outer.pc = "iter"
  /\ outer.i < outer.cap
  /\ ~Plateau(outer.ece_list[Len(outer.ece_list)], current_ece)
  /\ outer' = [outer EXCEPT
                 !.best_iter = BestAfter(outer.i, @, outer.ece_list, current_ece),
                 !.ece_list = TraceAfter(@, current_ece),
                 !.errs = Append(@, current_ece),
                 !.i = @ + 1,
                 !.pc = IF outer.i + 1 < outer.cap THEN "iter" ELSE "done"]
  /\ UNCHANGED outerRest

\* an outer iteration whose error is within eps of the last trace entry:
\* "self.iters = i + 1; break"
OuterPlateau(current_ece) ==
  /\ outer.pc = "iter"
  /\ outer.i < outer.cap
  /\ Plateau(outer.ece_list[Len(outer.ece_list)], current_ece)
  /\ outer' = [outer EXCEPT
                 !.best_iter = BestAfter(outer.i, @, outer.ece_list, current_ece),
                 !.ece_list = TraceAfter(@, current_ece),
                 !.errs = Append(@, current_ece),
                 !.iters = outer.i + 1,
                 !.pc = "done"]
  /\ UNCHANGED outerRest

OuterNext ==
  \/ \E e \in OuterErrs : OuterIterate(e)
  \/ \E e \in OuterErrs : OuterPlateau(e)

InitOuter == OuterInit /\ grid = Idle /\ step = Idle /\ smooth = Idle /\ part = Idle
  /\ cls = Idle /\ cfg = Idle /\ bins = Idle
  /\ perm = Idle
  /\ fwd = Idle
  /\ bsearch = Idle
  /\ eqb = Idle

SpecOuter == InitOuter /\ [][OuterNext]_vars

(***************************************************************************)
(* Claims on the outer iterations.                                         *)
(***************************************************************************)
\* the last trace entry that the k-th executed iteration was compared with,
\* given that every earlier iteration went on: the seed, or the error of
\* the iteration before
LastBefore(k) == IF k = 1 THEN outer.seed ELSE outer.errs[k - 1]

OuterDone == outer.pc = "done"

\* C5: when the solver returns, no executed iteration has a strictly lower
\* error than the iteration the best-iteration marker names.
C5_BestIterIsLowest ==
  OuterDone =>
    \A k \in 1..Len(outer.errs) :
      outer.errs[outer.best_iter + 1] <= outer.errs[k]

C10_CapOneReturnsSeedPlusOne ==
  (OuterDone /\ outer.cap = 1 /\ Abs(outer.seed - outer.errs[1]) > Eps) =>
     /\ outer.best_iter = 0
     /\ Len(outer.ece_list) = 2

C10_Witness ==
  /\ OuterDone /\ outer.cap = 1
  /\ outer.solver = "set_bins_temperature2"
  /\ Abs(outer.seed - outer.errs[1]) > Eps
  /\ outer.ece_list = <<outer.seed, outer.errs[1]>>

(***************************************************************************)
(* Sparse-bin smoothing: "for bin in few_examples" of                      *)
(* set_bins_temperature2 and set_temperature3.  few_examples holds the     *)
(* bins with fewer than 20 samples, in ascending order (the order the bin  *)
(* loop inserted them); bins_T is column i of the per-bin temperatures:    *)
(* the optimum of the grid search for a searched bin, the default 1.0 for  *)
(* a sparse one.  opt keeps the column as it was before smoothing.         *)
(***************************************************************************)
TempPositions == {1, 3, 7}

Bins(n) == 0..(n - 1)

\* "while lower_bin in few_examples and lower_bin - 1 >= 0: lower_bin -= 1"
RECURSIVE WalkDown(_, _)
WalkDown(few_examples, lower_bin) ==
  IF lower_bin \in few_examples /\ lower_bin - 1 >= 0
  THEN WalkDown(few_examples, lower_bin - 1)
  ELSE lower_bin

\* "while upper_bin in few_examples and upper_bin + 1 <= n_bins - 1:
\*  upper_bin += 1"
RECURSIVE WalkUp(_, _, _)
WalkUp(few_examples, n_bins, upper_bin) ==
  IF upper_bin \in few_examples /\ upper_bin + 1 <= n_bins - 1
  THEN WalkUp(few_examples, n_bins, upper_bin + 1)
  ELSE upper_bin

\* the sum in place of the mean
AvgTempSum(a, b) == a + b

\* "avg_temp = (bins_T[lower_bin, i] + bins_T[upper_bin, i]) / 2"
AvgTemp(a, b) == (a + b) \div 2

\* the smoothed value of an interior sparse bin: the lower neighbour's
\* value when the walk upwards ends on the last bin, else the mean
InteriorValue(bins_T, few_examples, n_bins, bin) ==
  LET lower_bin == WalkDown(few_examples, bin - 1)
      upper_bin == WalkUp(few_examples, n_bins, bin + 1)
  IN IF upper_bin = n_bins - 1 THEN bins_T[lower_bin]
     ELSE AvgTemp(bins_T[lower_bin], bins_T[upper_bin])

SmoothInit ==
  smooth \in
    { [solver |-> sv, n_bins |-> n, few_examples |-> few,
       opt |-> col, bins_T |-> col, todo |-> few,
       pc |-> "smooth", raised |-> NoValue] :
      sv \in {"set_bins_temperature2", "set_temperature3"},
      n \in 1..MaxBins, few \in SUBSET Bins(MaxBins),
      col \in UNION { [Bins(m) -> {k * Tenth : k \in TempPositions} \cup {One}]
                      : m \in 1..MaxBins } }
  /\ smooth.few_examples \subseteq Bins(smooth.n_bins)
  /\ DOMAIN smooth.opt = Bins(smooth.n_bins)
  /\ \A b \in Bins(smooth.n_bins) :
       IF b \in smooth.few_examples THEN smooth.opt[b] = One
       ELSE smooth.opt[b] \in {k * Tenth : k \in TempPositions}

smoothRest == <<grid, step, outer, part, cls, cfg, bins, perm, fwd, bsearch, eqb>>

\* the sparse bin the for loop takes next
NextSparse == CHOOSE b \in smooth.todo : \A c \in smooth.todo : b <= c

Smoothing == smooth.pc = "smooth" /\ smooth.todo # {}

\* "if bin > 0 and bin < n_bins - 1"
SmoothInterior ==
  /\ Smoothing
  /\ NextSparse > 0 /\ NextSparse < smooth.n_bins - 1
  /\ smooth' = [smooth EXCEPT
                  !.bins_T[NextSparse] =
                     InteriorValue(smooth.bins_T, smooth.few_examples,
                                   smooth.n_bins, NextSparse),
                  !.todo = @ \ {NextSparse},
                  !.pc = IF smooth.todo = {NextSparse} THEN "done" ELSE @]
  /\ UNCHANGED smoothRest

\* "elif bin == 0": the value of the bin the walk upwards ends on; with a
\* single bin that is bins_T[1, i], an index out of range
SmoothFirst ==
  /\ Smoothing
  /\ ~(NextSparse > 0 /\ NextSparse < smooth.n_bins - 1)
  /\ NextSparse = 0
  /\ LET upper_bin == WalkUp(smooth.few_examples, smooth.n_bins, 1)
     IN IF upper_bin \in Bins(smooth.n_bins)
        THEN smooth' = [smooth EXCEPT
                          !.bins_T[0] = smooth.bins_T[upper_bin],
                          !.todo = @ \ {0},
                          !.pc = IF smooth.todo = {0} THEN "done" ELSE @]
        ELSE smooth' = [smooth EXCEPT !.pc = "raised",
                                      !.raised = "IndexError"]
  /\ UNCHANGED smoothRest

\* "else": the last bin takes the value of the bin the walk downwards ends
\* on
SmoothLast ==
  /\ Smoothing
  /\ ~(NextSparse > 0 /\ NextSparse < smooth.n_bins - 1)
  /\ NextSparse # 0
  /\ LET lower_bin == WalkDown(smooth.few_examples, NextSparse - 1)
     IN smooth' = [smooth EXCEPT
                     !.bins_T[NextSparse] = smooth.bins_T[lower_bin],
                     !.todo = @ \ {NextSparse},
                     !.pc = IF smooth.todo = {NextSparse} THEN "done" ELSE @]
  /\ UNCHANGED smoothRest

\* no bin is sparse: the for loop has nothing to do
SmoothNothing ==
  /\ smooth.pc = "smooth" /\ smooth.todo = {}
  /\ smooth' = [smooth EXCEPT !.pc = "done"]
  /\ UNCHANGED smoothRest

SmoothNext == SmoothInterior \/ SmoothFirst \/ SmoothLast \/ SmoothNothing

InitSmooth == SmoothInit /\ grid = Idle /\ step = Idle /\ outer = Idle /\ part = Idle
  /\ cls = Idle /\ cfg = Idle /\ bins = Idle
  /\ perm = Idle
  /\ fwd = Idle
  /\ bsearch = Idle
  /\ eqb = Idle

SpecSmooth == InitSmooth /\ [][SmoothNext]_vars

\* the nearest non-sparse bins below and above a bin
Searched(b) == b \in Bins(smooth.n_bins) \ smooth.few_examples

HasBelow(bin) == \E b \in 0..(bin - 1) : Searched(b)

HasAbove(bin) == \E b \in (bin + 1)..(smooth.n_bins - 1) : Searched(b)

NearestBelow(bin) ==
  CHOOSE b \in 0..(bin - 1) :
    Searched(b) /\ \A c \in (b + 1)..(bin - 1) : ~Searched(c)

NearestAbove(bin) ==
  CHOOSE b \in (bin + 1)..(smooth.n_bins - 1) :
    Searched(b) /\ \A c \in (bin + 1)..(b - 1) : ~Searched(c)

\* C6: after smoothing, a sparse bin with a non-sparse bin below and a
\* non-sparse bin above holds the mean of the optimized temperatures a and
\* b of the nearest of them on each side: 2 * bins_T[bin] = a + b.
C6_BracketedSparseBinIsMean ==
  smooth.pc = "done" =>
    \A bin \in smooth.few_examples :
      (HasBelow(bin) /\ HasAbove(bin)) =>
        2 * smooth.bins_T[bin] =
          smooth.opt[NearestBelow(bin)] + smooth.opt[NearestAbove(bin)]

\* C18: in an outer iteration with at least one non-sparse bin, smoothing
\* raises no error and gives every sparse bin the optimized temperature of
\* its nearest non-sparse bin on one side, or the mean of the optimized
\* temperatures of its nearest non-sparse bins on both sides; it never
\* leaves or copies the default of a sparse bin.
C18_SparseBinsTakeNonSparseValues ==
  (smooth.pc # "idle" /\ \E b \in Bins(MaxBins) : Searched(b)) =>
    /\ smooth.pc # "raised"
    /\ \A bin \in smooth.few_examples \ smooth.todo :
         \/ HasBelow(bin) /\ smooth.bins_T[bin] = smooth.opt[NearestBelow(bin)]
         \/ HasAbove(bin) /\ smooth.bins_T[bin] = smooth.opt[NearestAbove(bin)]
         \/ /\ HasBelow(bin) /\ HasAbove(bin)
            /\ 2 * smooth.bins_T[bin] =
                 smooth.opt[NearestBelow(bin)] + smooth.opt[NearestAbove(bin)]

\* smoothing has ended on a column whose only non-sparse bin lies between
\* a sparse run of two bins from bin 0 and a sparse last bin
C18_Witness ==
  /\ smooth.pc = "done"
  /\ \E m \in 4..MaxBins :
       /\ smooth.n_bins = m
       /\ smooth.few_examples = Bins(m) \ {2}
       /\ \A bin \in smooth.few_examples : smooth.bins_T[bin] = smooth.opt[2]

(***************************************************************************)
(* Equal-population binning in the outer iterations.  A confidence is one  *)
(* of the levels 1..MaxConf.  An edge is kept multiplied by n_bins, which  *)
(* makes the linear interpolation of np.interp exact in integers; a        *)
(* confidence is multiplied by n_bins when compared with an edge.  The     *)
(* rounding of the edges to float32, the clamp of confidences above 0.9995 *)
(* (is_acc) and the lift of edges above 0.999 to 1 (cross_validate other   *)
(* than 'ece') of set_temperature3 are not modelled.                       *)
(***************************************************************************)
Samples == 1..NumSamples

ConfVectors == [Samples -> 1..MaxConf]

\* "np.sort(x)"
Sorted(x) ==
  CHOOSE srt \in ConfVectors :
    /\ \A a \in 1..(NumSamples - 1) : srt[a] <= srt[a + 1]
    /\ \A v \in 1..MaxConf :
         Cardinality({a \in Samples : srt[a] = v})
           = Cardinality({a \in Samples : x[a] = v})

\* "np.interp(np.linspace(0, npt, n_bins + 1), np.arange(npt), np.sort(x))":
\* edge k lies at position k * npt / n_bins of the sorted samples, between
\* sample j and sample j + 1 (counted from 0), and at the last sample when
\* the position is npt - 1 or beyond
histedges_equalN(x, n_bins) ==
  LET npt == NumSamples
      srt == Sorted(x)
  IN [k \in 0..n_bins |->
        LET j == (k * npt) \div n_bins
            r == (k * npt) % n_bins
        IN IF j >= npt - 1 THEN n_bins * srt[npt]
           ELSE n_bins * srt[j + 1] + r * (srt[j + 2] - srt[j + 1])]

\* "in_bin = confidences.gt(bin_lower.item()) * confidences.le(bin_upper.item())"
in_bin(confidences, bin_boundaries, n_bins, bin) ==
  {a \in Samples :
     /\ n_bins * confidences[a] > bin_boundaries[bin]
     /\ n_bins * confidences[a] <= bin_boundaries[bin + 1]}

PartInit ==
  part \in
    { [solver |-> sv, n_bins |-> n, iters |-> cap, confidences |-> x,
       pc |-> "boundaries", i |-> 0, bin |-> 0,
       bin_boundaries |-> <<>>,
       bins_of |-> [a \in Samples |-> {}]] :
      sv \in {"set_bins_temperature2", "set_temperature3"},
      n \in 1..MaxBins, cap \in 1..MaxIters, x \in ConfVectors }

partRest == <<grid, step, outer, smooth, cls, cfg, bins, perm, fwd, bsearch, eqb>>

\* "n, bin_boundaries[i] = np.histogram(confidences,
\*  histedges_equalN(confidences))": the histogram returns the edges given
PartBoundaries ==
  /\ part.pc = "boundaries"
  /\ part' = [part EXCEPT
                !.bin_boundaries = histedges_equalN(part.confidences, part.n_bins),
                !.bin = 0,
                !.bins_of = [a \in Samples |-> {}],
                !.pc = "bins"]
  /\ UNCHANGED partRest

\* one round of "for bin_lower, bin_upper in zip(bin_lowers, bin_uppers)":
\* the samples of the bin
PartInBin ==
  /\ part.pc = "bins"
  /\ part.bin < part.n_bins
  /\ LET members == in_bin(part.confidences, part.bin_boundaries,
                           part.n_bins, part.bin)
     IN part' = [part EXCEPT
                   !.bins_of = [a \in Samples |->
                                  IF a \in members THEN @[a] \cup {part.bin}
                                  ELSE @[a]],
                   !.bin = @ + 1,
                   !.pc = IF part.bin + 1 = part.n_bins THEN "binned" ELSE @]
  /\ UNCHANGED partRest

\* the end of an outer iteration of set_bins_temperature2: the logits are
\* rescaled, which gives new confidences x, and the next iteration computes
\* its boundaries from them
PartRecompute(x) ==
  /\ part.pc = "binned"
  /\ part.solver = "set_bins_temperature2"
  /\ part.i + 1 < part.iters
  /\ part' = [part EXCEPT !.confidences = x, !.i = @ + 1,
                          !.pc = "boundaries"]
  /\ UNCHANGED partRest

\* the end of an outer iteration of set_temperature3: new confidences, and
\* "bin_boundaries[i] = bin_boundaries[i - 1]"
PartCarryOver(x) ==
  /\ part.pc = "binned"
  /\ part.solver = "set_temperature3"
  /\ part.i + 1 < part.iters
  /\ part' = [part EXCEPT !.confidences = x, !.i = @ + 1,
                          !.bin = 0,
                          !.bins_of = [a \in Samples |-> {}],
                          !.pc = "bins"]
  /\ UNCHANGED partRest

PartNext ==
  \/ PartBoundaries
  \/ PartInBin
  \/ \E x \in ConfVectors : PartRecompute(x)
  \/ \E x \in ConfVectors : PartCarryOver(x)

InitPart ==
  PartInit /\ grid = Idle /\ step = Idle /\ outer = Idle /\ smooth = Idle
  /\ cls = Idle /\ cfg = Idle /\ bins = Idle
  /\ perm = Idle
  /\ fwd = Idle
  /\ bsearch = Idle
  /\ eqb = Idle

SpecPart == InitPart /\ [][PartNext]_vars

\* C7: when the bins of an outer iteration have been formed, every sample
\* is in exactly one of them.
C7_EverySampleInOneBin ==
  part.pc = "binned" =>
    \A a \in Samples : Cardinality(part.bins_of[a]) = 1

\* C15: in every outer iteration of the per-bin solvers the bin boundaries
\* in use are the equal-population edges of the current confidences, those
\* of the logits as scaled by all previous iterations.
C15_BoundariesFromCurrentConfidences ==
  part.pc \in {"bins", "binned"} =>
    part.bin_boundaries = histedges_equalN(part.confidences, part.n_bins)

(***************************************************************************)
(* Grid-based per-class search of set_temperature2 (const_temp false).     *)
(* Every class column starts at the warm-start temperature init_temp, the  *)
(* result of the global sweep; a pass tries, for each class in turn, the   *)
(* 100 candidates 0.1, 0.2, ... 10.0 in the class's entry with the other   *)
(* entries held, and range(iters) passes are made.                         *)
(***************************************************************************)
\* the inputs of a run: the error of the logits as a function of the
\* temperature vector, and the accuracy as a function of it.  Dividing all
\* columns by one positive value keeps every argmax, so the accuracy moves
\* (by d) only where the columns are scaled unequally
ClassInputs ==
  { inp \in [kind : {"flat", "vee"}, w : {1},
             target : [Scopes -> {k * Tenth : k \in TargetPositions}],
             d : {0 - 1, 0, 1}, when : {"lt", "ne"}] :
      inp.kind = "flat" => inp.target = Uniform(Tenth) }

\* test_classification_net_logits of the logits scaled by vec
ClassAcc(inp, vec) ==
  1 + (IF (inp.when = "lt" /\ vec[0] < vec[1]) \/
          (inp.when = "ne" /\ vec[0] # vec[1])
       THEN inp.d ELSE 0)

\* the error of the candidate is not compared with the best so far
AcceptAnyError(acc_check, csece_val, after, temp_accuracy, accuracy) ==
  acc_check => temp_accuracy >= accuracy

\* the accuracy guard passes every candidate
AcceptUnguarded(acc_check, csece_val, after, temp_accuracy, accuracy) ==
  csece_val > after

\* "if csece_val > after_temperature_ece and temp_accuracy >= accuracy" with
\* acc_check, "if csece_val > after_temperature_ece" without
Accept(acc_check, csece_val, after, temp_accuracy, accuracy) ==
  /\ csece_val > after
  /\ acc_check => temp_accuracy >= accuracy

\* the state after the warm start and the seeding of the trace
ClassInit ==
  \E e \in ErrFunctions :
    \E warm \in {StepSweep(e)} :
       \E ac \in BOOLEAN, it \in 1..MaxIters,
          inp \in WithErr(ClassInputs, e) :
         cls =
           [acc_check |-> ac, iters |-> it, inp |-> inp,
            pc |-> "sweep",
            init_temp |-> warm,
            T_csece |-> Uniform(warm),
            T_opt_csece |-> Uniform(warm),
            ece_list |-> <<StepErr(inp, Uniform(warm))>>,
            accuracy |-> ClassAcc(inp, Uniform(One)),
            csece_val |-> Sentinel,
            iter |-> 0, label |-> 0, T |-> Tenth,
            replaced |-> FALSE, lowest |-> Sentinel,
            ret |-> NoValue]

classRest == <<grid, step, outer, smooth, part, cfg, bins, perm, fwd, bsearch, eqb>>

\* one candidate of "for i in range(100)": T is written into the class's
\* entry of the working vector, the error (and the accuracy) of the logits
\* scaled by it evaluated, and an accepted candidate stored.  replaced
\* records that an accepted candidate differed from the stored entry and
\* lowest the least error evaluated so far
ClassCandidate ==
  /\ cls.pc = "sweep"
  /\ cls.T <= GridSteps * Tenth
  /\ LET Tc == [cls.T_csece EXCEPT ![cls.label] = cls.T]
         after == StepErr(cls.inp, Tc)
         temp_accuracy == ClassAcc(cls.inp, Tc)
         ok == Accept(cls.acc_check, cls.csece_val, after,
                      temp_accuracy, cls.accuracy)
     IN cls' = [cls EXCEPT
                  !.T_csece = Tc,
                  !.T_opt_csece[cls.label] = IF ok THEN cls.T ELSE @,
                  !.csece_val = IF ok THEN after ELSE @,
                  !.accuracy = IF ok /\ cls.acc_check
                               THEN temp_accuracy ELSE @,
                  !.replaced = @ \/ (ok /\ cls.T # cls.T_opt_csece[cls.label]),
                  !.lowest = IF after < @ THEN after ELSE @,
                  !.T = @ + Tenth]
  /\ UNCHANGED classRest

\* "T_csece[label] = T_opt_csece[label]", then the next class from "T = 0.1"
ClassEndLabel ==
  /\ cls.pc = "sweep"
  /\ cls.T > GridSteps * Tenth
  /\ cls' = [cls EXCEPT
               !.T_csece[cls.label] = cls.T_opt_csece[cls.label],
               !.label = @ + 1,
               !.T = Tenth,
               !.pc = IF cls.label + 1 = NumScopes THEN "pass_end" ELSE "sweep"]
  /\ UNCHANGED classRest

\* the end of a pass of "for iter in range(iters)": the error of the stored
\* optimum joins the trace; after the last pass the call returns
\* "csece_temperature, init_temp"
ClassEndPass ==
  /\ cls.pc = "pass_end"
  /\ LET last == cls.iter + 1 = cls.iters
     IN cls' = [cls EXCEPT
                  !.ece_list = Append(@, StepErr(cls.inp, cls.T_opt_csece)),
                  !.iter = @ + 1,
                  !.label = 0,
                  !.pc = IF last THEN "done" ELSE "sweep",
                  !.ret = IF last THEN <<cls.T_opt_csece, cls.init_temp>>
                          ELSE @]
  /\ UNCHANGED classRest

ClassNext ==
  \/ ClassCandidate
  \/ ClassEndLabel
  \/ ClassEndPass

InitClass ==
  /\ ClassInit
  /\ grid = Idle /\ step = Idle /\ outer = Idle /\ smooth = Idle
  /\ part = Idle /\ cfg = Idle /\ bins = Idle
  /\ perm = Idle
  /\ fwd = Idle
  /\ bsearch = Idle
  /\ eqb = Idle

SpecClass == InitClass /\ [][ClassNext]_vars

\* C11: when the guarded per-class search of set_temperature2 returns
\* without a candidate having replaced an entry of the pre-search vector,
\* every entry of the returned vector is the default 1.0; an unguarded
\* search returns a vector whose error is the least error it evaluated.
C11_GuardKeepsDefaultOne ==
  cls.pc = "done" =>
    /\ (cls.acc_check /\ ~cls.replaced) =>
          \A c \in Scopes : cls.ret[1][c] = One
    /\ ~cls.acc_check =>
          StepErr(cls.inp, cls.ret[1]) = cls.lowest

\* C20: in the guarded per-class search of set_temperature2 a candidate
\* replaces a class's stored optimum only if its error is strictly below
\* the best error so far and its accuracy is not below the best accuracy so
\* far; the best accuracy never decreases, and the accuracy of the returned
\* vector is not below the accuracy of the unscaled logits.
C20_GuardedReplacement ==
  [][ (cls.pc # "idle" /\ cls.acc_check) =>
        /\ cls'.accuracy >= cls.accuracy
        /\ cls'.T_opt_csece # cls.T_opt_csece =>
             /\ StepErr(cls.inp, cls'.T_csece) < cls.csece_val
             /\ ClassAcc(cls.inp, cls'.T_csece) >= cls.accuracy
        /\ cls'.pc = "done" =>
             ClassAcc(cls.inp, cls'.ret[1]) >= ClassAcc(cls.inp, Uniform(One))
    ]_vars

\* a guarded run has returned a vector that replaced the warm start, and
\* the guard has kept it from the least error the search evaluated
C20_Witness ==
  /\ cls.pc = "done"
  /\ cls.acc_check
  /\ cls.replaced
  /\ StepErr(cls.inp, cls.ret[1]) > cls.lowest

(***************************************************************************)
(* A call of set_temperature2 or set_temperature3 with its configuration   *)
(* (iters, num_bins, const_temp), followed statement by statement up to    *)
(* its return or its exception; calls counts the calls of the              *)
(* calibration-error and accuracy evaluators made so far.                  *)
(***************************************************************************)
\* "ece_criterion = ECELoss(n_bins=num_bins)": the evaluator built for
\* num_bins bins rejects its first call with InvalidInput when num_bins < 1,
\* before it evaluates anything
EvaluatorFails(num_bins) == num_bins < 1

\* the arguments of a call; non-positive values of iters and num_bins are
\* among them
CfgInit ==
  cfg \in
    { [fn |-> f, iters |-> it, num_bins |-> nb, const_temp |-> ct,
       pc |-> "start", calls |-> 0, t |-> 0, i |-> 0, error |-> NoValue] :
      f \in {"set_temperature2", "set_temperature3"},
      it \in (0 - 1)..MaxIters, nb \in (0 - 1)..MaxBins, ct \in BOOLEAN }

cfgRest == <<grid, step, outer, smooth, part, cls, bins, perm, fwd, bsearch, eqb>>

\* the first statements of the call: with const_temp the two criteria with
\* default bins evaluate the unscaled logits; otherwise
\* "before_temperature_ece = ece_criterion(logits, labels)" evaluates them
\* with num_bins bins, and set_temperature3 goes on to
\* "temps_iters = torch.ones(iters)", which raises for a negative iters
CfgBefore ==
  /\ cfg.pc = "start"
  /\ cfg' =
       IF cfg.const_temp
       THEN [cfg EXCEPT !.calls = @ + 2, !.pc = "sweep"]
       ELSE IF EvaluatorFails(cfg.num_bins)
       THEN [cfg EXCEPT !.pc = "raised", !.error = "InvalidInput"]
       ELSE IF cfg.fn = "set_temperature3" /\ cfg.iters < 0
       THEN [cfg EXCEPT !.calls = @ + 1, !.pc = "raised",
                        !.error = "RuntimeError"]
       ELSE IF cfg.fn = "set_temperature3" /\ cfg.iters = 0
       THEN [cfg EXCEPT !.calls = @ + 1, !.pc = "seed"]
       ELSE [cfg EXCEPT !.calls = @ + 1, !.pc = "sweep"]
  /\ UNCHANGED cfgRest

\* one candidate of the global sweep: one evaluation of the error in
\* set_temperature2 without const_temp, of the error and the NLL otherwise
CfgCandidate ==
  /\ cfg.pc = "sweep"
  /\ cfg.t < GridSteps
  /\ cfg' = [cfg EXCEPT
               !.t = @ + 1,
               !.calls = @ + (IF cfg.fn = "set_temperature2" /\ ~cfg.const_temp
                              THEN 1 ELSE 2)]
  /\ UNCHANGED cfgRest

\* the end of a sweep.  With const_temp the selected temperature is
\* evaluated and the call ends: set_temperature2 raises at
\* "csece_temperature = T_opt_csece", set_temperature3 falls off its end.
\* Without, set_temperature3 evaluates the round's optimum and starts the
\* next round of range(iters)
CfgSweepEnd ==
  /\ cfg.pc = "sweep"
  /\ cfg.t = GridSteps
  /\ cfg' =
       IF cfg.const_temp
       THEN [cfg EXCEPT
               !.calls = @ + 2,
               !.pc = IF cfg.fn = "set_temperature2" THEN "raised"
                      ELSE "returned",
               !.error = IF cfg.fn = "set_temperature2"
                         THEN "UnboundLocalError" ELSE @]
       ELSE IF cfg.fn = "set_temperature2"
       THEN [cfg EXCEPT !.pc = "seed"]
       ELSE [cfg EXCEPT
               !.calls = @ + 1,
               !.i = @ + 1,
               !.t = IF cfg.i + 1 < cfg.iters THEN 0 ELSE @,
               !.pc = IF cfg.i + 1 < cfg.iters THEN "sweep" ELSE "seed"]
  /\ UNCHANGED cfgRest

\* the statements between the warm start and the loop over range(iters):
\* the error of the warm start is evaluated and seeds the trace;
\* set_temperature3 then writes "bin_boundaries[0]" into an array of iters
\* rows, which raises IndexError when iters is 0
CfgSeed ==
  /\ cfg.pc = "seed"
  /\ cfg' =
       IF cfg.fn = "set_temperature2"
       THEN [cfg EXCEPT !.calls = @ + 3, !.i = 0, !.pc = "passes"]
       ELSE IF cfg.iters = 0
       THEN [cfg EXCEPT !.calls = @ + 2, !.pc = "raised",
                        !.error = "IndexError"]
       ELSE [cfg EXCEPT !.calls = @ + 2, !.i = 0, !.pc = "passes"]
  /\ UNCHANGED cfgRest

\* one pass of "for iter in range(iters)" of set_temperature2 (100
\* evaluations per class and one of the stored optimum), or one outer
\* iteration of set_temperature3 (its evaluation of current_ece), which
\* ends the loop when plateau holds
CfgPass(plateau) ==
  /\ cfg.pc = "passes"
  /\ cfg.i < cfg.iters
  /\ cfg' =
       IF cfg.fn = "set_temperature2"
       THEN [cfg EXCEPT !.calls = @ + NumScopes * GridSteps + 1, !.i = @ + 1]
       ELSE [cfg EXCEPT !.calls = @ + 1,
                        !.i = @ + 1,
                        !.iters = IF plateau THEN cfg.i + 1 ELSE @]
  /\ UNCHANGED cfgRest

\* "return csece_temperature, init_temp" /
\* "return bins_T, temperature, bin_boundaries, many_samples, best_iter"
CfgReturn ==
  /\ cfg.pc = "passes"
  /\ cfg.i >= cfg.iters
  /\ cfg' = [cfg EXCEPT !.pc = "returned"]
  /\ UNCHANGED cfgRest

CfgNext ==
  \/ CfgBefore
  \/ CfgCandidate
  \/ CfgSweepEnd
  \/ CfgSeed
  \/ \E plateau \in BOOLEAN : CfgPass(plateau)
  \/ CfgReturn

InitConfig ==
  /\ CfgInit
  /\ grid = Idle /\ step = Idle /\ outer = Idle /\ smooth = Idle
  /\ part = Idle /\ cls = Idle /\ bins = Idle
  /\ perm = Idle
  /\ fwd = Idle
  /\ bsearch = Idle
  /\ eqb = Idle

SpecConfig == InitConfig /\ [][CfgNext]_vars

\* C12: a call of set_temperature2 or set_temperature3 with iters <= 0 or
\* num_bins <= 0 makes no evaluator call and does not return: it ends in an
\* error before any evaluation.
C12_BadConfigFailsFast ==
  (cfg.pc # "idle" /\ (cfg.iters <= 0 \/ cfg.num_bins <= 0)) =>
    /\ cfg.calls = 0
    /\ cfg.pc # "returned"

(***************************************************************************)
(* The bin loop of one outer iteration of the per-bin solvers              *)
(* ModelWithTemperature.set_bins_temperature2 and set_temperature3: each   *)
(* bin is recorded as sparse, passed over or grid-searched; the sparse     *)
(* bins are smoothed; the per-sample vector T_opt_bece divides the logits. *)
(* The samples of a bin share their entry of T_opt_bece, so the vector is  *)
(* kept per bin.  The iteration shown starts with every entry at           *)
(* init_temp = 1: any iteration of set_temperature3, the first of          *)
(* set_bins_temperature2.  count is the number of samples of each bin.     *)
(***************************************************************************)
\* the sample counts of a bin: none, below the limit, at the limit
BinCounts == {0, SparseLimit - 1, SparseLimit}

\* the smoothed value of the sparse bin: the three branches of
\* "for bin in few_examples"
SmoothedValue(bins_T, few_examples, n_bins, bin) ==
  IF bin > 0 /\ bin < n_bins - 1
  THEN InteriorValue(bins_T, few_examples, n_bins, bin)
  ELSE IF bin = 0
  THEN bins_T[WalkUp(few_examples, n_bins, 1)]
  ELSE bins_T[WalkDown(few_examples, bin - 1)]

\* "for bin in few_examples", from bin upwards: the column after smoothing
RECURSIVE SmoothColumn(_, _, _, _)
SmoothColumn(bins_T, few_examples, n_bins, bin) ==
  IF bin >= n_bins THEN bins_T
  ELSE IF bin \notin few_examples
  THEN SmoothColumn(bins_T, few_examples, n_bins, bin + 1)
  ELSE SmoothColumn(
         [bins_T EXCEPT ![bin] = SmoothedValue(bins_T, few_examples, n_bins, bin)],
         few_examples, n_bins, bin + 1)

\* "bins_T[bin, i] = bins_T[upper_bin, i]" for bin 0 of a single bin reads
\* row 1 of a one-row array
SmoothRaises(few_examples, n_bins) ==
  0 \in few_examples /\ WalkUp(few_examples, n_bins, 1) \notin Bins(n_bins)

\* "if confidences[in_bin].shape[0] < 20 and cross_validate == 'ece'"
\* (set_temperature3), "if confidences[in_bin].shape[0] < 20"
\* (set_bins_temperature2)
SparseTest(solver, cross_validate, samples) ==
  /\ samples < SparseLimit
  /\ solver = "set_temperature3" => cross_validate = "ece"

BinsInit ==
  \E sv \in {"set_bins_temperature2", "set_temperature3"},
     cv \in {"ece", "nll"}, n \in 1..MaxBins :
    /\ sv = "set_bins_temperature2" => cv = "ece"
    /\ \E cnt \in [Bins(n) -> BinCounts] :
         bins = [solver |-> sv, cross_validate |-> cv, n_bins |-> n,
                 count |-> cnt,
                 pc |-> "bins", bin |-> 0,
                 few_examples |-> {},
                 searched |-> {},
                 bins_T |-> [b \in Bins(n) |-> One],
                 T_opt_bece |-> [b \in Bins(n) |-> One],
                 divisor |-> NoValue,
                 replay |-> NoValue,
                 raised |-> NoValue]

binsRest == <<grid, step, outer, smooth, part, cls, cfg, perm, fwd, bsearch, eqb>>

\* a bin below the limit: "few_examples[bin] = samples; bin += 1; continue"
BinsSparse ==
  /\ bins.pc = "bins"
  /\ bins.bin < bins.n_bins
  /\ SparseTest(bins.solver, bins.cross_validate, bins.count[bins.bin])
  /\ bins' = [bins EXCEPT !.few_examples = @ \cup {bins.bin},
                          !.bin = @ + 1]
  /\ UNCHANGED binsRest

\* "if any(in_bin)" fails: a bin without samples is passed over
BinsEmpty ==
  /\ bins.pc = "bins"
  /\ bins.bin < bins.n_bins
  /\ ~SparseTest(bins.solver, bins.cross_validate, bins.count[bins.bin])
  /\ bins.count[bins.bin] = 0
  /\ bins' = [bins EXCEPT !.bin = @ + 1]
  /\ UNCHANGED binsRest

\* the grid search of the bin: the 100 candidates are tried on the samples
\* of the bin and the optimum T is stored for them,
\* "bins_T[bin, i] = T_opt_bece[in_bin][0].item()"
BinsSearch(T) ==
  /\ bins.pc = "bins"
  /\ bins.bin < bins.n_bins
  /\ ~SparseTest(bins.solver, bins.cross_validate, bins.count[bins.bin])
  /\ bins.count[bins.bin] > 0
  /\ bins' = [bins EXCEPT !.T_opt_bece[bins.bin] = T,
                          !.bins_T[bins.bin] = T,
                          !.searched = @ \cup {bins.bin},
                          !.bin = @ + 1]
  /\ UNCHANGED binsRest

\* after the bin loop: "for bin in few_examples" smooths column i of bins_T
\* (set_temperature3 only "if cross_validate == 'ece'")
BinsSmooth ==
  /\ bins.pc = "bins"
  /\ bins.bin = bins.n_bins
  /\ bins' =
       IF SmoothRaises(bins.few_examples, bins.n_bins)
       THEN [bins EXCEPT !.pc = "raised", !.raised = "IndexError"]
       ELSE [bins EXCEPT
               !.bins_T = SmoothColumn(bins.bins_T, bins.few_examples,
                                       bins.n_bins, 0),
               !.pc = "apply"]
  /\ UNCHANGED binsRest

\* "bece_temperature = T_opt_bece", the error of the logits divided by it,
\* and "logits = logits / torch.unsqueeze(bece_temperature, -1)": divisor
\* is the value the samples of each bin are divided by
BinsApply ==
  /\ bins.pc = "apply"
  /\ bins' = [bins EXCEPT !.divisor = bins.T_opt_bece, !.pc = "done"]
  /\ UNCHANGED binsRest

\* the round of bins_temperature_scale_test3 that replays the iteration on
\* the same logits with the returned boundaries and bins_T: "if
\* any(in_bin): scaled_logits[in_bin] = scaled_logits[in_bin] / bins_T[bin,
\* i]".  replay is the value the samples of each bin are divided by; the
\* samples of a bin are those of the solver ("confidences.gt(bin_lower) *
\* confidences.le(bin_upper)" in both)
BinsReplay ==
  /\ bins.pc = "done"
  /\ bins.solver = "set_temperature3"
  /\ bins' = [bins EXCEPT
                !.replay = [b \in Bins(bins.n_bins) |->
                             IF bins.count[b] > 0 THEN bins.bins_T[b]
                             ELSE NoValue],
                !.pc = "replayed"]
  /\ UNCHANGED binsRest

BinsNext ==
  \/ BinsSparse
  \/ BinsEmpty
  \/ \E k \in TempPositions : BinsSearch(k * Tenth)
  \/ BinsSmooth
  \/ BinsApply
  \/ BinsReplay

InitBins ==
  /\ BinsInit
  /\ grid = Idle /\ step = Idle /\ outer = Idle /\ smooth = Idle
  /\ part = Idle /\ cls = Idle /\ cfg = Idle
  /\ perm = Idle
  /\ fwd = Idle
  /\ bsearch = Idle
  /\ eqb = Idle

SpecBins == InitBins /\ [][BinsNext]_vars

\* C16: whatever the objective selector, a bin with fewer than 20 samples
\* is never grid-searched.
C16_SparseBinsNeverSearched ==
  bins.pc # "idle" =>
    \A b \in bins.searched : bins.count[b] >= SparseLimit

\* C17: a bin without samples keeps, through the search and the smoothing
\* of the iteration, the temperature entry it had before (the default 1.0
\* of the column), and the iteration raises no error.
C17_EmptyBinKeepsValue ==
  (bins.pc # "idle" /\ \E b \in Bins(bins.n_bins) : bins.count[b] = 0) =>
    /\ bins.pc # "raised"
    /\ \A b \in Bins(bins.n_bins) : bins.count[b] = 0 => bins.bins_T[b] = One

\* C19: the logits used for the error of the iteration and handed to the
\* next iteration are every sample's logits divided by the temperature its
\* bin holds after smoothing.
C19_DividedBySmoothedTemperature ==
  bins.pc = "done" =>
    \A b \in Bins(bins.n_bins) :
      bins.count[b] > 0 => bins.divisor[b] = bins.bins_T[b]

(***************************************************************************)
(* The class order of a pass of the per-class searches set_temperature2    *)
(* and ModelWithTemperature.set_temperature.  The code takes the classes   *)
(* in the order of range(logits.size()[1]); the pass is run here, on the   *)
(* same input and from the same warm start, once for every order of the    *)
(* classes, all runs stepping together through the positions of the        *)
(* order and the candidates of a class.                                    *)
(***************************************************************************)
\* the orders in which the class loop can take the classes
Orders ==
  { o \in [1..NumScopes -> Scopes] :
      \A c \in Scopes : \E i \in 1..NumScopes : o[i] = c }

\* "for label in range(logits.size()[1])"
Natural == [i \in 1..NumScopes |-> i - 1]

\* the candidates of one class: "T = 0.1 ... T += 0.1" a hundred times in
\* set_temperature2, "init_temp_value + step" over temp_steps in
\* set_temperature
Candidates(solver, init_temp_value) ==
  IF solver = "set_temperature2"
  THEN [k \in 1..GridSteps |-> k * Tenth]
  ELSE [k \in 1..Len(temp_steps) |-> init_temp_value + temp_steps[k]]

\* the value an accepted candidate stores: the candidate, except that
\* set_temperature with acc_check stores T, which the warm-start sweep left
\* one step past the grid
Stored(solver, acc_check, cand) ==
  IF solver = "set_temperature" /\ acc_check
  THEN (GridSteps + 1) * Tenth ELSE cand

\* the body of the candidate loop for the class label of one run
PermTry(solver, acc_check, inp, run, label, k) ==
  LET cand == Candidates(solver, run.init_temp_value)[k]
      Tc == [run.T_csece EXCEPT ![label] = cand]
      after == StepErr(inp, Tc)
      temp_accuracy == ClassAcc(inp, Tc)
      ok == Accept(acc_check, run.csece_val, after, temp_accuracy, run.accuracy)
  IN [run EXCEPT
        !.T_csece = Tc,
        !.T_opt_csece[label] = IF ok THEN Stored(solver, acc_check, cand) ELSE @,
        !.csece_val = IF ok THEN after ELSE @,
        !.accuracy = IF ok /\ acc_check THEN temp_accuracy ELSE @]

\* the state after the warm start, the same for every order
PermInit ==
  \E e \in ErrFunctions :
    \E warm \in {StepSweep(e)} :
       \E sv \in {"set_temperature2", "set_temperature"}, ac \in BOOLEAN,
          inp \in WithErr(ClassInputs, e) :
         perm =
           [solver |-> sv, acc_check |-> ac, inp |-> inp,
            pc |-> "sweep", idx |-> 1, k |-> 1,
            runs |-> [o \in Orders |->
                       [T_csece |-> Uniform(warm),
                        T_opt_csece |-> Uniform(warm),
                        csece_val |-> Sentinel,
                        accuracy |-> ClassAcc(inp, Uniform(One)),
                        init_temp_value |-> warm]]]

permRest == <<grid, step, outer, smooth, part, cls, cfg, bins, fwd, bsearch, eqb>>

\* one candidate of the class at position idx of every order
PermCandidate ==
  /\ perm.pc = "sweep"
  /\ perm.k <= Len(Candidates(perm.solver, 0))
  /\ perm' = [perm EXCEPT
                !.runs = [o \in Orders |->
                           PermTry(perm.solver, perm.acc_check, perm.inp,
                                   perm.runs[o], o[perm.idx], perm.k)],
                !.k = @ + 1]
  /\ UNCHANGED permRest

\* "T_csece[label] = T_opt_csece[label]" and the next class of the order,
\* whose starting value is its entry of the working vector; after the last
\* class the pass is over
PermEndLabel ==
  /\ perm.pc = "sweep"
  /\ perm.k > Len(Candidates(perm.solver, 0))
  /\ LET last == perm.idx = NumScopes
         kept(o) == [perm.runs[o].T_csece EXCEPT
                       ![o[perm.idx]] = perm.runs[o].T_opt_csece[o[perm.idx]]]
     IN perm' = [perm EXCEPT
                   !.runs = [o \in Orders |->
                              [perm.runs[o] EXCEPT
                                 !.T_csece = kept(o),
                                 !.init_temp_value =
                                    IF last THEN @
                                    ELSE kept(o)[o[perm.idx + 1]]]],
                   !.idx = IF last THEN @ ELSE @ + 1,
                   !.k = 1,
                   !.pc = IF last THEN "pass_end" ELSE "sweep"]
  /\ UNCHANGED permRest

PermNext ==
  \/ PermCandidate
  \/ PermEndLabel

InitPerm ==
  /\ PermInit
  /\ grid = Idle /\ step = Idle /\ outer = Idle /\ smooth = Idle
  /\ part = Idle /\ cls = Idle /\ cfg = Idle /\ bins = Idle
  /\ fwd = Idle
  /\ bsearch = Idle
  /\ eqb = Idle

SpecPerm == InitPerm /\ [][PermNext]_vars

\* C21: at the end of a pass of the per-class search the stored per-class
\* temperature vector is the same for every order in which the pass takes
\* the classes.
C21_PassIndependentOfClassOrder ==
  perm.pc = "pass_end" =>
    \A o \in Orders :
      perm.runs[o].T_opt_csece = perm.runs[Natural].T_opt_csece

\* C22: the replay of an iteration by bins_temperature_scale_test3, on the
\* logits the solver was run on and with the returned boundaries and
\* per-bin temperatures, divides the samples of every bin by the value the
\* solver divided them by in that iteration.
C22_ReplayDividesAsSolver ==
  bins.pc = "replayed" =>
    \A b \in Bins(bins.n_bins) :
      bins.count[b] > 0 => bins.replay[b] = bins.divisor[b]

(***************************************************************************)
(* A ModelWithTemperature built with const_temp=True: set_temperature      *)
(* sweeps the 100 candidates and stores the selected scalar in             *)
(* self.temperature, then forward() scales the logits of the wrapped       *)
(* model.  The scaled logits are the logits times num / den: a division    *)
(* by a temperature of t twentieths multiplies num by One and den by t.    *)
(***************************************************************************)
\* the state after __init__ and the first statements of set_temperature:
\* "self.temperature = 1.0", "self.temps_iters = torch.ones(iters)",
\* "nll_val = 10 ** 7 ... T = 0.1"
FwdInit ==
  \E cv \in {"ece", "nll"}, n \in 1..MaxIters,
     es \in {s \in EceShapes : s.b = MaxErr}, ns \in NllShapes :
    fwd = [cross_validate |-> cv, iters |-> n, ece |-> es, nll |-> ns,
           pc |-> "sweep",
           temperature |-> One,
           temps_iters |-> [i \in 0..(n - 1) |-> One],
           T |-> Tenth, t |-> 0,
           ece_val |-> Sentinel, nll_val |-> Sentinel,
           T_opt_ece |-> One, T_opt_nll |-> One,
           i |-> 0, num |-> 1, den |-> 1]

fwdRest == <<grid, step, outer, smooth, part, cls, cfg, bins, perm, bsearch, eqb>>

\* one candidate of the sweep of set_temperature: "self.temperature = T",
\* both errors evaluated, the optima updated, "T += 0.1"
FwdCandidate ==
  /\ fwd.pc = "sweep"
  /\ fwd.t < GridSteps
  /\ LET after_nll == criterion(fwd.nll, fwd.T)
         after_ece == criterion(fwd.ece, fwd.T)
         nllBetter == Improves(fwd.nll_val, after_nll)
         eceBetter == Improves(fwd.ece_val, after_ece)
     IN fwd' = [fwd EXCEPT
                  !.temperature = fwd.T,
                  !.T_opt_nll = IF nllBetter THEN fwd.T ELSE @,
                  !.nll_val = IF nllBetter THEN after_nll ELSE @,
                  !.T_opt_ece = IF eceBetter THEN fwd.T ELSE @,
                  !.ece_val = IF eceBetter THEN after_ece ELSE @,
                  !.T = @ + Tenth,
                  !.t = @ + 1]
  /\ UNCHANGED fwdRest

\* "if cross_validate == 'ece': self.temperature = T_opt_ece else:
\* self.temperature = T_opt_nll", and set_temperature returns
FwdSelect ==
  /\ fwd.pc = "sweep"
  /\ fwd.t = GridSteps
  /\ fwd' = [fwd EXCEPT
               !.temperature = IF fwd.cross_validate = "ece"
                               THEN fwd.T_opt_ece ELSE fwd.T_opt_nll,
               !.pc = "tuned"]
  /\ UNCHANGED fwdRest

\* forward(): "if self.const_temp or const_temp: return
\* self.iter_temperature_scale(logits)", which starts from
\* "scaled_logits = logits.clone()"
FwdForward ==
  /\ fwd.pc = "tuned"
  /\ fwd' = [fwd EXCEPT !.pc = "scaling", !.i = 0, !.num = 1, !.den = 1]
  /\ UNCHANGED fwdRest

\* "for i in range(self.iters): scaled_logits = scaled_logits /
\* self.temps_iters[i]"
FwdDivide ==
  /\ fwd.pc = "scaling"
  /\ fwd.i < fwd.iters
  /\ fwd' = [fwd EXCEPT !.num = @ * One,
                        !.den = @ * fwd.temps_iters[fwd.i],
                        !.i = @ + 1]
  /\ UNCHANGED fwdRest

\* "return scaled_logits"
FwdReturn ==
  /\ fwd.pc = "scaling"
  /\ fwd.i = fwd.iters
  /\ fwd' = [fwd EXCEPT !.pc = "returned"]
  /\ UNCHANGED fwdRest

FwdNext ==
  \/ FwdCandidate
  \/ FwdSelect
  \/ FwdForward
  \/ FwdDivide
  \/ FwdReturn

InitFwd ==
  /\ FwdInit
  /\ grid = Idle /\ step = Idle /\ outer = Idle /\ smooth = Idle
  /\ part = Idle /\ cls = Idle /\ cfg = Idle /\ bins = Idle
  /\ perm = Idle
  /\ bsearch = Idle
  /\ eqb = Idle

SpecFwd == InitFwd /\ [][FwdNext]_vars

\* C23: after set_temperature has tuned the scalar of a const_temp model,
\* forward() returns the logits of the wrapped model divided by the tuned
\* temperature.
C23_ForwardDividesByTuned ==
  fwd.pc = "returned" => fwd.num * fwd.temperature = fwd.den * One

\* C24: whenever the per-class step search of set_temperature accepts a
\* candidate for a class, with or without accuracy guard, the value stored
\* as the optimum of the class is the candidate just evaluated, the
\* starting value of the class plus the current step.
C24_AcceptStoresCandidate ==
  [][ (step.pc = "steps" /\ step.solver = "set_temperature"
       /\ step'.csece_val # step.csece_val) =>
        /\ step'.T_opt_csece[step.label]
             = step.init_temp_value + temp_steps[step.s]
        /\ step'.T_opt_csece[step.label] = step'.T_csece[step.label]
    ]_vars

(***************************************************************************)
(* The grid search of one bin in set_temperature3 with the ECE objective.  *)
(* The gap |accuracy_in_bin - avg_confidence_in_bin| of the samples of the *)
(* bin divided by T is a function of T fixed by the input (a shape, as     *)
(* for the global search; 1.0 is none of the special positions, so the     *)
(* gap at 1.0 is the shape's b).  The running best starts at the gap of    *)
(* the confidences the iteration holds.  In the first iteration of a       *)
(* highly accurate model (is_acc) these have been capped at 0.9995, which  *)
(* moves their mean, and the starting gap, away from the gap at 1.0 by     *)
(* delta.                                                                  *)
(***************************************************************************)
GapValues == 0..(MaxErr + Eps)

GapShapes ==
  { s \in [p : Positions, q : Positions,
           vp : GapValues, vq : GapValues, b : GapValues] : s.p < s.q }

\* the change of the starting gap by "confidences[confidences > 0.9995] =
\* 0.9995"
Deltas == {0 - (Eps + 1), 0, Eps + 1}

BsInit ==
  \E sh \in GapShapes, acc \in BOOLEAN, it \in 0..(MaxIters - 1),
     dl \in Deltas :
    /\ dl # 0 => acc /\ it = 0
    /\ criterion(sh, One) + dl >= 0
    /\ bsearch = [gap |-> sh, is_acc |-> acc, i |-> it, delta |-> dl,
                  pc |-> "search",
                  T |-> Tenth, t |-> 0,
                  bece_val |-> criterion(sh, One) + dl,
                  T_bece |-> One, T_opt_bece |-> One,
                  bins_T |-> One,
                  accepted |-> FALSE]

bsearchRest == <<grid, step, outer, smooth, part, cls, cfg, bins, perm, fwd, eqb>>

\* "if bece_val > after_temperature + eps"
BeatsBest(bece_val, after_temperature) == bece_val > after_temperature + Eps

\* one candidate of "for t in range(100)": "T_bece[in_bin] = T", the gap of
\* the bin's logits divided by it, the optimum updated, "T += 0.1".
\* accepted records that a candidate has been stored
BsCandidate ==
  /\ bsearch.pc = "search"
  /\ bsearch.t < GridSteps
  /\ LET after_temperature == criterion(bsearch.gap, bsearch.T)
         ok == BeatsBest(bsearch.bece_val, after_temperature)
     IN bsearch' = [bsearch EXCEPT
                      !.T_bece = bsearch.T,
                      !.T_opt_bece = IF ok THEN bsearch.T ELSE @,
                      !.bece_val = IF ok THEN after_temperature ELSE @,
                      !.accepted = @ \/ ok,
                      !.T = @ + Tenth,
                      !.t = @ + 1]
  /\ UNCHANGED bsearchRest

\* "T_bece[in_bin] = T_opt_bece[in_bin]",
\* "bins_T[bin, i] = T_opt_bece[in_bin][0].item()"
BsStore ==
  /\ bsearch.pc = "search"
  /\ bsearch.t = GridSteps
  /\ bsearch' = [bsearch EXCEPT !.T_bece = bsearch.T_opt_bece,
                                !.bins_T = bsearch.T_opt_bece,
                                !.pc = "stored"]
  /\ UNCHANGED bsearchRest

BsNext ==
  \/ BsCandidate
  \/ BsStore

InitBs ==
  /\ BsInit
  /\ grid = Idle /\ step = Idle /\ outer = Idle /\ smooth = Idle
  /\ part = Idle /\ cls = Idle /\ cfg = Idle /\ bins = Idle
  /\ perm = Idle /\ fwd = Idle
  /\ eqb = Idle

SpecBs == InitBs /\ [][BsNext]_vars

\* C25: when the ECE grid search of a bin in set_temperature3 has stored its
\* temperature, the gap at the stored temperature exceeds the gap of no
\* grid candidate by more than eps, and a search in which no candidate
\* lowered the running best gap by more than eps leaves the bin at 1.0.
C25_StoredGapWithinEpsOfBest ==
  bsearch.pc = "stored" =>
    /\ \A k \in 1..GridSteps :
         criterion(bsearch.gap, bsearch.bins_T)
           <= criterion(bsearch.gap, k * Tenth) + Eps
    /\ ~bsearch.accepted => bsearch.bins_T = One

\* C26: in every state of a run of the per-bin solvers, any two consecutive
\* entries of the convergence trace differ by more than eps.
C26_TraceEntriesApartByEps ==
  outer.pc # "idle" =>
    \A k \in 1..(Len(outer.ece_list) - 1) :
      Abs(outer.ece_list[k + 1] - outer.ece_list[k]) > Eps

\* a run has appended two iterations to the seed and stopped at a third,
\* whose error was within eps of the last entry and was not appended
C26_Witness ==
  /\ outer.pc = "done"
  /\ Len(outer.ece_list) = 3
  /\ Len(outer.errs) = 3
  /\ outer.errs[3] # outer.ece_list[3]

\* C27: in set_temperature2 without accuracy guard the recorded error trace
\* is non-increasing: the error after the first pass is not above the
\* warm-start error, and the error after each later pass is not above the
\* error after the pass before.
C27_TraceNonIncreasing ==
  (cls.pc # "idle" /\ ~cls.acc_check) =>
    \A k \in 1..(Len(cls.ece_list) - 1) :
      cls.ece_list[k + 1] <= cls.ece_list[k]

\* an unguarded run of two passes whose first pass lowered the warm-start
\* error
C27_Witness ==
  /\ cls.pc = "done"
  /\ ~cls.acc_check
  /\ Len(cls.ece_list) = 3
  /\ cls.ece_list[2] < cls.ece_list[1]

\* the pass loops run as sequential code: a step that can be taken is taken
SpecStepLive == InitStep /\ [][StepNext]_vars /\ WF_vars(StepNext)

\* C28: the pass loops "while not converged" of set_temperature and
\* set_bins_temperature terminate when the error takes finitely many
\* values: eventually a pass leaves the temperature vector unchanged and
\* the loop is left.
C28_PassLoopTerminates == <>(step.pc = "done")

\* set_bins_temperature has left its loop after a pass that changed the
\* vector and a pass that did not
C28_Witness ==
  /\ step.pc = "done"
  /\ step.solver = "set_bins_temperature"
  /\ Len(step.history) >= 3
  /\ step.history[Len(step.history)] = step.history[Len(step.history) - 1]
  /\ step.history[1] # step.history[2]

(***************************************************************************)
(* equal_bins(x, n_bins): the edges of bins of bin_size samples each.  The *)
(* confidence vector x has 1 to MaxLen entries of the levels               *)
(* 1..MaxConf, all below 1.0; an edge is a level, 0 for the entries that   *)
(* np.zeros left, or ConfOne for 1.0.                                      *)
(***************************************************************************)
ConfOne == MaxConf + 1

EqVectors == UNION { [1..n -> 1..MaxConf] : n \in 1..MaxLen }

\* the sorted sequence srt with v put in its place
RECURSIVE InsertSorted(_, _)
InsertSorted(v, srt) ==
  IF srt = <<>> THEN <<v>>
  ELSE IF v <= Head(srt) THEN <<v>> \o srt
  ELSE <<Head(srt)>> \o InsertSorted(v, Tail(srt))

\* "np.sort(x)"
RECURSIVE SortedSeq(_)
SortedSeq(x) ==
  IF Len(x) = 0 THEN <<>>
  ELSE InsertSorted(x[1], SortedSeq([k \in 1..(Len(x) - 1) |-> x[k + 1]]))

\* the state before the loop: "bin_size = int(x.shape[0] / n_bins)",
\* "bin_boundaries = np.zeros(n_bins + 1)",
\* "bin_boundaries[0] = sorted_samples[0]", "bin_boundaries[-1] = 1.0",
\* "counter = 0", "i = 1"
EqInit ==
  \E x \in EqVectors, n \in 1..MaxBins :
    eqb = [x |-> x, n_bins |-> n,
           pc |-> "loop",
           bin_size |-> Len(x) \div n,
           sorted_samples |-> SortedSeq(x),
           bin_boundaries |->
             [[k \in 0..n |-> 0] EXCEPT ![0] = SortedSeq(x)[1],
                                        ![n] = ConfOne],
           counter |-> 0, i |-> 1,
           raised |-> NoValue]

eqbRest == <<grid, step, outer, smooth, part, cls, cfg, bins, perm, fwd, bsearch>>

\* one sample of "for sample in sorted_samples": "if counter == bin_size*i:
\* bin_boundaries[i] = sample; i += 1", then "counter += 1".  An index
\* beyond n_bins is out of the bounds of the array
EqSample ==
  /\ eqb.pc = "loop"
  /\ eqb.counter < Len(eqb.sorted_samples)
  /\ LET sample == eqb.sorted_samples[eqb.counter + 1]
     IN IF eqb.counter = eqb.bin_size * eqb.i
        THEN IF eqb.i > eqb.n_bins
             THEN eqb' = [eqb EXCEPT !.pc = "raised", !.raised = "IndexError"]
             ELSE eqb' = [eqb EXCEPT !.bin_boundaries[eqb.i] = sample,
                                     !.i = @ + 1,
                                     !.counter = @ + 1]
        ELSE eqb' = [eqb EXCEPT !.counter = @ + 1]
  /\ UNCHANGED eqbRest

\* "return bin_boundaries, many_samples"
EqReturn ==
  /\ eqb.pc = "loop"
  /\ eqb.counter = Len(eqb.sorted_samples)
  /\ eqb' = [eqb EXCEPT !.pc = "returned"]
  /\ UNCHANGED eqbRest

EqNext ==
  \/ EqSample
  \/ EqReturn

InitEq ==
  /\ EqInit
  /\ grid = Idle /\ step = Idle /\ outer = Idle /\ smooth = Idle
  /\ part = Idle /\ cls = Idle /\ cfg = Idle /\ bins = Idle
  /\ perm = Idle /\ fwd = Idle /\ bsearch = Idle

SpecEq == InitEq /\ [][EqNext]_vars

\* C29: for every non-empty confidence vector and every n_bins >= 1,
\* equal_bins raises no error and returns n_bins + 1 edges that are
\* monotonically non-decreasing and end with 1.0.
C29_EqualBinsEdgesOrdered ==
  eqb.pc # "idle" =>
    /\ eqb.pc # "raised"
    /\ eqb.pc = "returned" =>
         /\ \A k \in 0..(eqb.n_bins - 1) :
              eqb.bin_boundaries[k] <= eqb.bin_boundaries[k + 1]
         /\ eqb.bin_boundaries[eqb.n_bins] = ConfOne

\* C30: for every n_bins >= 1 and every set of sparse bins, the smoothing
\* reads and writes only entries of the per-bin temperatures with an index
\* in 0..n_bins-1, and completes without an error (a read or write at
\* another index raises IndexError).
C30_SmoothingStaysInRange ==
  smooth.pc # "idle" =>
    /\ smooth.raised = NoValue
    /\ DOMAIN smooth.bins_T = Bins(smooth.n_bins)
====
